---- MODULE Spec2Model ----
(***************************************************************************)
(* State-machine model of src/db.ts: the DB facade over one JSON document  *)
(* kept in localStorage under STORAGE_KEY.  Every public operation loads   *)
(* the whole document (getInitialState), works on the in-memory copy and,  *)
(* on the paths that reach saveState, writes the whole document back.      *)
(***************************************************************************)
EXTENDS Integers, Sequences, FiniteSets, TLC

VARIABLES
    localStorage,   \* the browser key-value store: key -> serialized text
    clock,          \* the last value Date.now() returned
    last,           \* the last call made on DB: operation, arguments, return value
    addDelLog,      \* history: the addItem/deleteItem calls made so far (SpecItems)
    stock,          \* history: per item id, the units on offer when the item was put
                    \* in place and the outcomes of the purchases since (SpecStock)
    redeemed        \* history: per code string, the number of redeem calls that
                    \* returned success

vars == <<localStorage, clock, last, addDelLog, stock, redeemed>>
history == <<addDelLog, stock, redeemed>>

----------------------------------------------------------------------------
(* Bounds of the model *)

\* localStorage quota, counted in stored records (users, items, purchases,
\* transactions, redeem codes, tickets and ticket messages)
MaxRecords == 3
\* Date.now() ranges over 0..MaxClock
MaxClock == 1
\* credits are kept within MinCredits..MaxCredits by the guards
MaxCredits == 3
\* length of the addItem/deleteItem call log of SpecItems
MaxLog == 5
\* localStorage quota of SpecStock, in records
MaxStockRecords == 4
\* purchases recorded per item by SpecStock
MaxCalls == 3
\* localStorage quota of SpecFrame, in records
MaxFrameRecords == 4

MinCredits == 0 - 1

----------------------------------------------------------------------------
(* Values of types.ts used by db.ts *)

INSTANT == "INSTANT"
SEQUENTIAL == "SEQUENTIAL"
PENDING == "PENDING"
APPROVED == "APPROVED"
REJECTED == "REJECTED"
OPEN == "OPEN"
CLOSED == "CLOSED"
TransactionStatus == {PENDING, APPROVED, REJECTED}

\* the JavaScript value undefined (an optional property that is not set)
Undefined == "undefined"

UserIds == {"u1", "u2"}
ItemIds == {"i1", "i2"}
TxIds == {"t1", "t2"}
CodeStrs == {"WELCOME10", "SAVE5"}
TicketIds == {"k1"}
\* values of Math.random().toString(36).substring(7); no operation of DB
\* reads a Purchase's id, so one value stands for them all
RandomIds == {"r1"}

\* User records handed to addUser (two of them share an id: addUser does
\* not check uniqueness)
UserInputs ==
    { [id |-> "u1", credits |-> 3],
      [id |-> "u1", credits |-> 0],
      [id |-> "u2", credits |-> 1] }

Unit(content, isDelivered) == [content |-> content, isDelivered |-> isDelivered]

DeliveredUnits(units) == {k \in DOMAIN units : units[k].isDelivered}

InstantItem(id, price, content) ==
    [id |-> id, name |-> "gift", price |-> price, type |-> INSTANT, content |-> content,
     sequentialItems |-> <<>>, deliveredCount |-> 0]

SequentialItem(id, price, units) ==
    [id |-> id, name |-> "key", price |-> price, type |-> SEQUENTIAL, content |-> Undefined,
     sequentialItems |-> units, deliveredCount |-> Cardinality(DeliveredUnits(units))]

\* Item records handed to addItem / updateItem.  An item without
\* sequentialItems carries the empty list: `item.sequentialItems?.find`
\* yields undefined for both.
ItemInputs ==
    { InstantItem("i1", 1, "K"),
      InstantItem("i2", 0 - 1, Undefined),
      SequentialItem("i1", 1, <<Unit("a", FALSE), Unit("b", FALSE)>>),
      SequentialItem("i2", 2, <<Unit("a", TRUE), Unit("b", FALSE)>>),
      SequentialItem("i2", 1, <<>>) }

\* Purchase records handed to addPurchase
PurchaseInputs ==
    { [id |-> "r1", userId |-> "u1", itemId |-> "i1", itemName |-> "gift",
       contentDelivered |-> "K", timestamp |-> 0, price |-> 1] }

\* Transaction records handed to addTransaction (two of them share an id)
TransactionInputs ==
    { [id |-> "t1", userId |-> "u1", amount |-> 1, status |-> PENDING],
      [id |-> "t1", userId |-> "u2", amount |-> 2, status |-> PENDING] }

\* RedeemCode records handed to addRedeemCode (two of them share a code)
RedeemCodeInputs ==
    { [code |-> "WELCOME10", amount |-> 2, isUsed |-> FALSE],
      [code |-> "WELCOME10", amount |-> 1, isUsed |-> FALSE] }

\* TicketMessage and Ticket records handed to addTicketMessage / createTicket
MessageInputs == {[sender |-> "u1", timestamp |-> t] : t \in 0..MaxClock}
TicketInputs ==
    {[id |-> k, messages |-> <<>>, status |-> OPEN, lastUpdated |-> t] :
        k \in TicketIds, t \in 0..MaxClock}

CreditAmounts == {0 - 1, 1}
Tokens == {"", "tok"}

----------------------------------------------------------------------------
(* Persistence *)

STORAGE_KEY == "ebon_shop_db"

\* the document getInitialState builds when the key is absent
EmptyState ==
    [users |-> <<>>, items |-> <<>>, purchases |-> <<>>,
     transactions |-> <<>>, redeemCodes |-> <<>>, tickets |-> <<>>]

\* JSON.stringify / JSON.parse on a DBState: the text carries the six
\* sequences in order; properties whose value is undefined are left out of
\* the text and read back as undefined.
JSONstringify(state) == [json |-> state]
JSONparse(text) == text.json

getInitialState ==
    IF STORAGE_KEY \in DOMAIN localStorage
    THEN JSONparse(localStorage[STORAGE_KEY])
    ELSE EmptyState

\* the store after saveState(state)
saveState(state) == (STORAGE_KEY :> JSONstringify(state))

\* Array.prototype.find / findIndex, given the positions (1-based) of the
\* elements the callback accepts: the first of them, 0 when there is none
FindIndex(matching) ==
    IF matching = {} THEN 0
    ELSE CHOOSE k \in matching : \A j \in matching : k <= j

RECURSIVE SumLen(_)
SumLen(seq) == IF seq = <<>> THEN 0 ELSE Len(Head(seq).messages) + SumLen(Tail(seq))

\* size of a document, in records
Records(state) ==
    Len(state.users) + Len(state.items) + Len(state.purchases)
    + Len(state.transactions) + Len(state.redeemCodes) + Len(state.tickets)
    + SumLen(state.tickets)

\* every balance of the document lies within the modelled range
CreditsInRange(state) ==
    \A k \in DOMAIN state.users :
        state.users[k].credits \in MinCredits..MaxCredits

\* the return value of a function without a return statement
Void == "void"
\* the record of a call: operation, arguments, return value
Call(op, args, ret) == [op |-> op, args |-> args, ret |-> ret]

----------------------------------------------------------------------------
(* Users *)

getUsers == getInitialState.users

addUser(state, user) == [state EXCEPT !.users = Append(@, user)]

verifyUser(token) ==
    IF token # Undefined /\ Len(token) > 0
    THEN [success |-> TRUE, error |-> Undefined]
    ELSE [success |-> FALSE, error |-> "Invalid or expired verification token"]

updateUserCredits(state, userId, amount) ==
    LET k == FindIndex({n \in DOMAIN state.users : state.users[n].id = userId})
    IN  IF k # 0 THEN [state EXCEPT !.users[k].credits = @ + amount] ELSE state

----------------------------------------------------------------------------
(* Items *)

getItems == getInitialState.items

addItem(state, item) == [state EXCEPT !.items = Append(@, item)]

\* mutant of updateItem: the document is saved when no item has the id, too
updateItem_AlwaysSaves(state, item) ==
    LET index == FindIndex({n \in DOMAIN state.items : state.items[n].id = item.id})
    IN  IF index # 0
        THEN [state |-> [state EXCEPT !.items[index] = item], saved |-> TRUE, ret |-> TRUE]
        ELSE [state |-> state, saved |-> TRUE, ret |-> FALSE]

\* [state, saved, ret]: the document after the call, whether saveState ran,
\* and the value returned
updateItem(state, item) ==
    LET index == FindIndex({n \in DOMAIN state.items : state.items[n].id = item.id})
    IN  IF index # 0
        THEN [state |-> [state EXCEPT !.items[index] = item], saved |-> TRUE, ret |-> TRUE]
        ELSE [state |-> state, saved |-> FALSE, ret |-> FALSE]

\* mutant of deleteItem: only the first item with the id is removed
deleteItem_FirstOnly(state, itemId) ==
    LET index == FindIndex({n \in DOMAIN state.items : state.items[n].id = itemId})
    IN  IF index = 0 THEN state
        ELSE [state EXCEPT !.items = SubSeq(@, 1, index - 1) \o SubSeq(@, index + 1, Len(@))]

deleteItem(state, itemId) ==
    [state EXCEPT !.items = SelectSeq(@, LAMBDA i : i.id # itemId)]

----------------------------------------------------------------------------
(* Purchases *)

getPurchases == getInitialState.purchases

addPurchase(state, purchase) == [state EXCEPT !.purchases = Append(@, purchase)]

PurchaseFailure(state, error) ==
    [state |-> state, saved |-> FALSE,
     ret |-> [success |-> FALSE, content |-> Undefined, error |-> error]]

\* mutant of CompletePurchase: the new Purchase replaces the log
CompletePurchase_Overwrite(state, u, i, userId, itemId, content, rnd, now) ==
    LET item == state.items[i]
        debited == [state EXCEPT !.users[u].credits = @ - item.price]
        purchase == [id |-> rnd, userId |-> userId, itemId |-> itemId,
                     itemName |-> item.name, contentDelivered |-> content,
                     timestamp |-> now, price |-> item.price]
    IN  [state |-> [debited EXCEPT !.purchases = <<purchase>>],
         saved |-> TRUE,
         ret |-> [success |-> TRUE, content |-> content, error |-> Undefined]]

\* mutant of CompletePurchase: every user record with the id is debited
CompletePurchase_AllUsers(state, u, i, userId, itemId, content, rnd, now) ==
    LET item == state.items[i]
        debited == [state EXCEPT !.users =
                       [k \in DOMAIN state.users |->
                           IF state.users[k].id = userId
                           THEN [state.users[k] EXCEPT !.credits = @ - item.price]
                           ELSE state.users[k]]]
        purchase == [id |-> rnd, userId |-> userId, itemId |-> itemId,
                     itemName |-> item.name, contentDelivered |-> content,
                     timestamp |-> now, price |-> item.price]
    IN  [state |-> [debited EXCEPT !.purchases = Append(@, purchase)],
         saved |-> TRUE,
         ret |-> [success |-> TRUE, content |-> content, error |-> Undefined]]

\* lines 108-120: debit, build the Purchase, push it, save, return
CompletePurchase(state, u, i, userId, itemId, content, rnd, now) ==
    LET item == state.items[i]
        debited == [state EXCEPT !.users[u].credits = @ - item.price]
        purchase == [id |-> rnd, userId |-> userId, itemId |-> itemId,
                     itemName |-> item.name, contentDelivered |-> content,
                     timestamp |-> now, price |-> item.price]
    IN  [state |-> [debited EXCEPT !.purchases = Append(@, purchase)],
         saved |-> TRUE,
         ret |-> [success |-> TRUE, content |-> content, error |-> Undefined]]

\* mutant of DeliverSequential: the unit handed out is not marked delivered
DeliverSequential_NoMark(state, u, i, userId, itemId, rnd, now) ==
    LET units == state.items[i].sequentialItems
        available == FindIndex({n \in DOMAIN units : ~units[n].isDelivered})
    IN  IF available = 0 THEN PurchaseFailure(state, "Out of stock")
        ELSE CompletePurchase(
                [state EXCEPT !.items[i].deliveredCount = @ + 1],
                u, i, userId, itemId, units[available].content, rnd, now)

\* mutant of DeliverSequential: the debit is made and saved before the stock
\* check returns
DeliverSequential_DebitFirst(state, u, i, userId, itemId, rnd, now) ==
    LET units == state.items[i].sequentialItems
        available == FindIndex({n \in DOMAIN units : ~units[n].isDelivered})
        debited == [state EXCEPT !.users[u].credits = @ - state.items[i].price]
    IN  IF available = 0
        THEN [state |-> debited, saved |-> TRUE,
              ret |-> [success |-> FALSE, content |-> Undefined, error |-> "Out of stock"]]
        ELSE CompletePurchase(
                [state EXCEPT !.items[i].sequentialItems[available].isDelivered = TRUE,
                              !.items[i].deliveredCount = @ + 1],
                u, i, userId, itemId, units[available].content, rnd, now)

\* mutant of DeliverSequential: deliveredCount is not incremented
DeliverSequential_NoCount(state, u, i, userId, itemId, rnd, now) ==
    LET units == state.items[i].sequentialItems
        available == FindIndex({n \in DOMAIN units : ~units[n].isDelivered})
    IN  IF available = 0 THEN PurchaseFailure(state, "Out of stock")
        ELSE CompletePurchase(
                [state EXCEPT !.items[i].sequentialItems[available].isDelivered = TRUE],
                u, i, userId, itemId, units[available].content, rnd, now)

\* lines 101-105: the SEQUENTIAL branch, for the item at index i
DeliverSequential(state, u, i, userId, itemId, rnd, now) ==
    LET units == state.items[i].sequentialItems
        available == FindIndex({n \in DOMAIN units : ~units[n].isDelivered})
    IN  IF available = 0 THEN PurchaseFailure(state, "Out of stock")
        ELSE CompletePurchase(
                [state EXCEPT !.items[i].sequentialItems[available].isDelivered = TRUE,
                              !.items[i].deliveredCount = @ + 1],
                u, i, userId, itemId, units[available].content, rnd, now)

\* lines 98-99: the INSTANT branch
DeliverInstant(state, u, i, userId, itemId, rnd, now) ==
    LET item == state.items[i]
        content == IF item.content = Undefined THEN "" ELSE item.content
    IN  CompletePurchase(state, u, i, userId, itemId, content, rnd, now)

\* mutant of InsufficientCredits: the balance is tested against zero, not
\* against the price
InsufficientCredits_Sign(user, item) == user.credits < 0

\* mutant of InsufficientCredits: <= for <
InsufficientCredits_Strict(user, item) == user.credits <= item.price

\* line 95: the credits check
InsufficientCredits(user, item) == user.credits < item.price

\* mutant of processPurchase: the stock is looked at before the credits
processPurchase_StockFirst(state, userId, itemId, rnd, now) ==
    LET u == FindIndex({n \in DOMAIN state.users : state.users[n].id = userId})
        i == FindIndex({n \in DOMAIN state.items : state.items[n].id = itemId})
    IN  IF u = 0 \/ i = 0 THEN PurchaseFailure(state, "User or Item not found")
        ELSE IF /\ state.items[i].type # INSTANT
                /\ \A n \in DOMAIN state.items[i].sequentialItems :
                      state.items[i].sequentialItems[n].isDelivered
        THEN PurchaseFailure(state, "Out of stock")
        ELSE IF InsufficientCredits(state.users[u], state.items[i])
        THEN PurchaseFailure(state, "Insufficient credits")
        ELSE IF state.items[i].type = INSTANT
        THEN DeliverInstant(state, u, i, userId, itemId, rnd, now)
        ELSE DeliverSequential(state, u, i, userId, itemId, rnd, now)

processPurchase(state, userId, itemId, rnd, now) ==
    LET u == FindIndex({n \in DOMAIN state.users : state.users[n].id = userId})
        i == FindIndex({n \in DOMAIN state.items : state.items[n].id = itemId})
    IN  IF u = 0 \/ i = 0 THEN PurchaseFailure(state, "User or Item not found")
        ELSE IF InsufficientCredits(state.users[u], state.items[i])
        THEN PurchaseFailure(state, "Insufficient credits")
        ELSE IF state.items[i].type = INSTANT
        THEN DeliverInstant(state, u, i, userId, itemId, rnd, now)
        ELSE DeliverSequential(state, u, i, userId, itemId, rnd, now)

----------------------------------------------------------------------------
(* Transactions *)

getTransactions == getInitialState.transactions

addTransaction(state, transaction) ==
    [state EXCEPT !.transactions = Append(@, transaction)]

\* lines 136-137: credit tx.amount to the user found by tx.userId
CreditOwner(state, tx) ==
    LET u == FindIndex({n \in DOMAIN state.users : state.users[n].id = tx.userId})
    IN  IF u # 0 THEN [state EXCEPT !.users[u].credits = @ + tx.amount] ELSE state

\* mutant of updateTransactionStatus: a transaction that is APPROVED already
\* is not credited again
updateTransactionStatus_Guarded(state, id, status) ==
    LET t == FindIndex({n \in DOMAIN state.transactions : state.transactions[n].id = id})
    IN  IF t = 0 THEN state
        ELSE LET marked == [state EXCEPT !.transactions[t].status = status]
             IN  IF status = APPROVED /\ state.transactions[t].status # APPROVED
                 THEN CreditOwner(marked, marked.transactions[t])
                 ELSE marked

\* mutant of updateTransactionStatus: the owner is credited whatever the status
updateTransactionStatus_AnyStatus(state, id, status) ==
    LET t == FindIndex({n \in DOMAIN state.transactions : state.transactions[n].id = id})
    IN  IF t = 0 THEN state
        ELSE CreditOwner([state EXCEPT !.transactions[t].status = status],
                         state.transactions[t])

\* mutant of updateTransactionStatus: the status is stored for APPROVED only
updateTransactionStatus_ApprovedOnly(state, id, status) ==
    LET t == FindIndex({n \in DOMAIN state.transactions : state.transactions[n].id = id})
    IN  IF t = 0 \/ status # APPROVED THEN state
        ELSE CreditOwner([state EXCEPT !.transactions[t].status = status],
                         state.transactions[t])

updateTransactionStatus(state, id, status) ==
    LET t == FindIndex({n \in DOMAIN state.transactions : state.transactions[n].id = id})
    IN  IF t = 0 THEN state
        ELSE LET marked == [state EXCEPT !.transactions[t].status = status]
             IN  IF status = APPROVED
                 THEN CreditOwner(marked, marked.transactions[t])
                 ELSE marked

----------------------------------------------------------------------------
(* Redeem codes *)

getRedeemCodes == getInitialState.redeemCodes

addRedeemCode(state, code) == [state EXCEPT !.redeemCodes = Append(@, code)]

RedeemFailure(state, error) ==
    [state |-> state, saved |-> FALSE,
     ret |-> [success |-> FALSE, amount |-> Undefined, error |-> error]]

\* mutant of FindCode: the isUsed flag is not looked at
FindCode_AnyMatch(redeemCodes, codeStr) ==
    FindIndex({n \in DOMAIN redeemCodes : redeemCodes[n].code = codeStr})

\* line 155: the code record redeem picks, 0 when there is none
FindCode(redeemCodes, codeStr) ==
    FindIndex({n \in DOMAIN redeemCodes : redeemCodes[n].code = codeStr /\ ~redeemCodes[n].isUsed})

\* mutant of redeem: the code is looked up before the user
redeem_CodeFirst(state, userId, codeStr) ==
    LET u == FindIndex({n \in DOMAIN state.users : state.users[n].id = userId})
        c == FindCode(state.redeemCodes, codeStr)
    IN  IF c = 0 THEN RedeemFailure(state, "Invalid or already used code")
        ELSE IF u = 0 THEN RedeemFailure(state, "User not found")
        ELSE [state |-> [state EXCEPT !.redeemCodes[c].isUsed = TRUE,
                                      !.users[u].credits = @ + state.redeemCodes[c].amount],
              saved |-> TRUE,
              ret |-> [success |-> TRUE, amount |-> state.redeemCodes[c].amount,
                       error |-> Undefined]]

\* mutant of redeem: the record redeemed is not marked used
redeem_NoMark(state, userId, codeStr) ==
    LET u == FindIndex({n \in DOMAIN state.users : state.users[n].id = userId})
        c == FindCode(state.redeemCodes, codeStr)
    IN  IF u = 0 THEN RedeemFailure(state, "User not found")
        ELSE IF c = 0 THEN RedeemFailure(state, "Invalid or already used code")
        ELSE [state |-> [state EXCEPT !.users[u].credits = @ + state.redeemCodes[c].amount],
              saved |-> TRUE,
              ret |-> [success |-> TRUE, amount |-> state.redeemCodes[c].amount,
                       error |-> Undefined]]

redeem(state, userId, codeStr) ==
    LET u == FindIndex({n \in DOMAIN state.users : state.users[n].id = userId})
        c == FindCode(state.redeemCodes, codeStr)
    IN  IF u = 0 THEN RedeemFailure(state, "User not found")
        ELSE IF c = 0 THEN RedeemFailure(state, "Invalid or already used code")
        ELSE [state |-> [state EXCEPT !.redeemCodes[c].isUsed = TRUE,
                                      !.users[u].credits = @ + state.redeemCodes[c].amount],
              saved |-> TRUE,
              ret |-> [success |-> TRUE, amount |-> state.redeemCodes[c].amount,
                       error |-> Undefined]]

----------------------------------------------------------------------------
(* Tickets *)

getTickets == getInitialState.tickets

createTicket(state, ticket) == [state EXCEPT !.tickets = Append(@, ticket)]

addTicketMessage(state, ticketId, message, now) ==
    LET k == FindIndex({n \in DOMAIN state.tickets : state.tickets[n].id = ticketId})
    IN  IF k = 0 THEN state
        ELSE [state EXCEPT !.tickets[k].messages = Append(@, message),
                           !.tickets[k].lastUpdated = now]

closeTicket(state, ticketId, now) ==
    LET k == FindIndex({n \in DOMAIN state.tickets : state.tickets[n].id = ticketId})
    IN  IF k = 0 THEN state
        ELSE [state EXCEPT !.tickets[k].status = CLOSED,
                           !.tickets[k].lastUpdated = now]

----------------------------------------------------------------------------
(* The state machine: one action per public operation of DB *)

\* the store after a call that ran saveState(state) iff saved
Stored(result) ==
    IF result.saved THEN saveState(result.state) ELSE localStorage

\* a write fits the quota and the modelled range of balances
Fits(state, quota) == Records(state) <= quota /\ CreditsInRange(state)

\* no history yet for an item id
NoStock == [tracked |-> FALSE, units |-> <<>>, outcomes |-> <<>>]

Init ==
    /\ localStorage = <<>>
    /\ clock = 0
    /\ last = Call("init", <<>>, Void)
    /\ addDelLog = <<>>
    /\ stock = [id \in ItemIds |-> NoStock]
    /\ redeemed = [codeStr \in CodeStrs |-> 0]

(* The calls on users, items and purchases, for a given quota; the history
   variables are left to the specification that uses them. *)

AddUserCall(user, quota) ==
    /\ Fits(addUser(getInitialState, user), quota)
    /\ localStorage' = saveState(addUser(getInitialState, user))
    /\ last' = Call("addUser", <<user>>, Void)
    /\ UNCHANGED clock

UpdateUserCreditsCall(userId, amount, quota) ==
    /\ Fits(updateUserCredits(getInitialState, userId, amount), quota)
    /\ localStorage' = saveState(updateUserCredits(getInitialState, userId, amount))
    /\ last' = Call("updateUserCredits", <<userId, amount>>, Void)
    /\ UNCHANGED clock

AddItemCall(item, quota) ==
    /\ Fits(addItem(getInitialState, item), quota)
    /\ localStorage' = saveState(addItem(getInitialState, item))
    /\ last' = Call("addItem", <<item>>, Void)
    /\ UNCHANGED clock

UpdateItemCall(item) ==
    /\ localStorage' = Stored(updateItem(getInitialState, item))
    /\ last' = Call("updateItem", <<item>>, updateItem(getInitialState, item).ret)
    /\ UNCHANGED clock

DeleteItemCall(itemId) ==
    /\ localStorage' = saveState(deleteItem(getInitialState, itemId))
    /\ last' = Call("deleteItem", <<itemId>>, Void)
    /\ UNCHANGED clock

\* Math.random and Date.now are read on the success path only
ProcessPurchaseCall(userId, itemId, quota) ==
    \E rnd \in RandomIds, now \in clock..MaxClock :
        LET result == processPurchase(getInitialState, userId, itemId, rnd, now)
        IN  /\ Fits(result.state, quota)
            /\ localStorage' = Stored(result)
            /\ clock' = IF result.saved THEN now ELSE clock
            /\ last' = Call("processPurchase", <<userId, itemId>>, result.ret)

(* The actions of Spec *)

\* mutant of GetUsers: the document read is written back
GetUsers_EagerInit ==
    /\ last' = Call("getUsers", <<>>, getUsers)
    /\ localStorage' = saveState(getInitialState)
    /\ UNCHANGED <<clock, history>>

GetUsers ==
    /\ last' = Call("getUsers", <<>>, getUsers)
    /\ UNCHANGED <<localStorage, clock, history>>

AddUser(user) == AddUserCall(user, MaxRecords) /\ UNCHANGED history

VerifyUser(token) ==
    /\ last' = Call("verifyUser", <<token>>, verifyUser(token))
    /\ UNCHANGED <<localStorage, clock, history>>

UpdateUserCredits(userId, amount) ==
    UpdateUserCreditsCall(userId, amount, MaxRecords) /\ UNCHANGED history

GetItems ==
    /\ last' = Call("getItems", <<>>, getItems)
    /\ UNCHANGED <<localStorage, clock, history>>

AddItem(item) == AddItemCall(item, MaxRecords) /\ UNCHANGED history

UpdateItem(item) == UpdateItemCall(item) /\ UNCHANGED history

DeleteItem(itemId) == DeleteItemCall(itemId) /\ UNCHANGED history

GetPurchases ==
    /\ last' = Call("getPurchases", <<>>, getPurchases)
    /\ UNCHANGED <<localStorage, clock, history>>

AddPurchase(purchase) ==
    /\ Fits(addPurchase(getInitialState, purchase), MaxRecords)
    /\ localStorage' = saveState(addPurchase(getInitialState, purchase))
    /\ last' = Call("addPurchase", <<purchase>>, Void)
    /\ UNCHANGED <<clock, history>>

ProcessPurchase(userId, itemId) ==
    ProcessPurchaseCall(userId, itemId, MaxRecords) /\ UNCHANGED history

GetTransactions ==
    /\ last' = Call("getTransactions", <<>>, getTransactions)
    /\ UNCHANGED <<localStorage, clock, history>>

AddTransaction(transaction) ==
    /\ Fits(addTransaction(getInitialState, transaction), MaxRecords)
    /\ localStorage' = saveState(addTransaction(getInitialState, transaction))
    /\ last' = Call("addTransaction", <<transaction>>, Void)
    /\ UNCHANGED <<clock, history>>

UpdateTransactionStatus(id, status) ==
    /\ Fits(updateTransactionStatus(getInitialState, id, status), MaxRecords)
    /\ localStorage' = saveState(updateTransactionStatus(getInitialState, id, status))
    /\ last' = Call("updateTransactionStatus", <<id, status>>, Void)
    /\ UNCHANGED <<clock, history>>

GetRedeemCodes ==
    /\ last' = Call("getRedeemCodes", <<>>, getRedeemCodes)
    /\ UNCHANGED <<localStorage, clock, history>>

AddRedeemCode(code) ==
    /\ Fits(addRedeemCode(getInitialState, code), MaxRecords)
    /\ localStorage' = saveState(addRedeemCode(getInitialState, code))
    /\ last' = Call("addRedeemCode", <<code>>, Void)
    /\ UNCHANGED <<clock, history>>

Redeem(userId, codeStr) ==
    LET result == redeem(getInitialState, userId, codeStr)
    IN  /\ Fits(result.state, MaxRecords)
        /\ localStorage' = Stored(result)
        /\ last' = Call("redeem", <<userId, codeStr>>, result.ret)
        /\ redeemed' = IF result.ret.success
                       THEN [redeemed EXCEPT ![codeStr] = @ + 1]
                       ELSE redeemed
        /\ UNCHANGED <<clock, addDelLog, stock>>

GetTickets ==
    /\ last' = Call("getTickets", <<>>, getTickets)
    /\ UNCHANGED <<localStorage, clock, history>>

CreateTicket(ticket) ==
    /\ Fits(createTicket(getInitialState, ticket), MaxRecords)
    /\ localStorage' = saveState(createTicket(getInitialState, ticket))
    /\ last' = Call("createTicket", <<ticket>>, Void)
    /\ UNCHANGED <<clock, history>>

\* Date.now is read only when the ticket is found
AddTicketMessage(ticketId, message) ==
    \E now \in clock..MaxClock :
        LET found == \E k \in DOMAIN getTickets : getTickets[k].id = ticketId
        IN  /\ Fits(addTicketMessage(getInitialState, ticketId, message, now), MaxRecords)
            /\ localStorage' = saveState(addTicketMessage(getInitialState, ticketId, message, now))
            /\ clock' = IF found THEN now ELSE clock
            /\ last' = Call("addTicketMessage", <<ticketId, message>>, Void)
            /\ UNCHANGED history

CloseTicket(ticketId) ==
    \E now \in clock..MaxClock :
        LET found == \E k \in DOMAIN getTickets : getTickets[k].id = ticketId
        IN  /\ localStorage' = saveState(closeTicket(getInitialState, ticketId, now))
            /\ clock' = IF found THEN now ELSE clock
            /\ last' = Call("closeTicket", <<ticketId>>, Void)
            /\ UNCHANGED history

Next ==
    \/ GetUsers
    \/ \E user \in UserInputs : AddUser(user)
    \/ \E token \in Tokens : VerifyUser(token)
    \/ \E userId \in UserIds, amount \in CreditAmounts : UpdateUserCredits(userId, amount)
    \/ GetItems
    \/ \E item \in ItemInputs : AddItem(item)
    \/ \E item \in ItemInputs : UpdateItem(item)
    \/ \E itemId \in ItemIds : DeleteItem(itemId)
    \/ GetPurchases
    \/ \E purchase \in PurchaseInputs : AddPurchase(purchase)
    \/ \E userId \in UserIds, itemId \in ItemIds : ProcessPurchase(userId, itemId)
    \/ GetTransactions
    \/ \E transaction \in TransactionInputs : AddTransaction(transaction)
    \/ \E id \in TxIds, status \in TransactionStatus : UpdateTransactionStatus(id, status)
    \/ GetRedeemCodes
    \/ \E code \in RedeemCodeInputs : AddRedeemCode(code)
    \/ \E userId \in UserIds, codeStr \in CodeStrs : Redeem(userId, codeStr)
    \/ GetTickets
    \/ \E ticket \in TicketInputs : CreateTicket(ticket)
    \/ \E ticketId \in TicketIds, message \in MessageInputs : AddTicketMessage(ticketId, message)
    \/ \E ticketId \in TicketIds : CloseTicket(ticketId)

Spec == Init /\ [][Next]_vars

----------------------------------------------------------------------------
(* SpecItems: addItem and deleteItem calls on an empty store, with the log
   of the calls kept in addDelLog *)

LoggedAddItem(item) ==
    /\ Len(addDelLog) < MaxLog
    /\ AddItemCall(item, MaxLog)
    /\ addDelLog' = Append(addDelLog, [op |-> "addItem", id |-> item.id, item |-> item])
    /\ UNCHANGED <<stock, redeemed>>

LoggedDeleteItem(itemId) ==
    /\ Len(addDelLog) < MaxLog
    /\ DeleteItemCall(itemId)
    /\ addDelLog' = Append(addDelLog, [op |-> "deleteItem", id |-> itemId, item |-> Undefined])
    /\ UNCHANGED <<stock, redeemed>>

NextItems ==
    \/ \E item \in ItemInputs : LoggedAddItem(item)
    \/ \E itemId \in ItemIds : LoggedDeleteItem(itemId)

SpecItems == Init /\ [][NextItems]_vars

----------------------------------------------------------------------------
(* SpecStock: addUser, the calls on items and processPurchase, with the
   history of each item id kept in stock: the contents of the units not yet
   delivered when the first record with that id was put in place (by addItem
   or updateItem), and the return values of the processPurchase calls on that
   id since then that got past the existence and credits checks. *)

Undelivered(units) == SelectSeq(units, LAMBDA si : ~si.isDelivered)

StartStock(item) ==
    [tracked |-> TRUE,
     units |-> [k \in 1..Len(Undelivered(item.sequentialItems)) |->
                    Undelivered(item.sequentialItems)[k].content],
     outcomes |-> <<>>]

HasItem(itemId) == \E k \in DOMAIN getItems : getItems[k].id = itemId

EarlyErrors == {"User or Item not found", "Insufficient credits"}

StockAddUser(user) == AddUserCall(user, MaxStockRecords) /\ UNCHANGED history

StockAddItem(item) ==
    /\ AddItemCall(item, MaxStockRecords)
    /\ stock' = IF HasItem(item.id) THEN stock
                 ELSE [stock EXCEPT ![item.id] = StartStock(item)]
    /\ UNCHANGED <<addDelLog, redeemed>>

StockUpdateItem(item) ==
    /\ UpdateItemCall(item)
    /\ stock' = IF HasItem(item.id) THEN [stock EXCEPT ![item.id] = StartStock(item)]
                 ELSE stock
    /\ UNCHANGED <<addDelLog, redeemed>>

StockDeleteItem(itemId) ==
    /\ DeleteItemCall(itemId)
    /\ stock' = [stock EXCEPT ![itemId] = NoStock]
    /\ UNCHANGED <<addDelLog, redeemed>>

StockProcessPurchase(userId, itemId) ==
    /\ Len(stock[itemId].outcomes) < MaxCalls
    /\ ProcessPurchaseCall(userId, itemId, MaxStockRecords)
    /\ stock' = IF last'.ret.error \in EarlyErrors THEN stock
                 ELSE [stock EXCEPT ![itemId].outcomes = Append(@, last'.ret)]
    /\ UNCHANGED <<addDelLog, redeemed>>

NextStock ==
    \/ \E user \in UserInputs : StockAddUser(user)
    \/ \E item \in ItemInputs : StockAddItem(item)
    \/ \E item \in ItemInputs : StockUpdateItem(item)
    \/ \E itemId \in ItemIds : StockDeleteItem(itemId)
    \/ \E userId \in UserIds, itemId \in ItemIds : StockProcessPurchase(userId, itemId)

SpecStock == Init /\ [][NextStock]_vars

----------------------------------------------------------------------------
(* SpecFrame: the calls that append to a collection, and processPurchase, on
   a store with room for a purchase next to three other records *)

FrameAddUser(user) == AddUserCall(user, MaxFrameRecords) /\ UNCHANGED history

FrameAddItem(item) == AddItemCall(item, MaxFrameRecords) /\ UNCHANGED history

FrameAddTransaction(transaction) ==
    /\ Fits(addTransaction(getInitialState, transaction), MaxFrameRecords)
    /\ localStorage' = saveState(addTransaction(getInitialState, transaction))
    /\ last' = Call("addTransaction", <<transaction>>, Void)
    /\ UNCHANGED <<clock, history>>

FrameAddRedeemCode(code) ==
    /\ Fits(addRedeemCode(getInitialState, code), MaxFrameRecords)
    /\ localStorage' = saveState(addRedeemCode(getInitialState, code))
    /\ last' = Call("addRedeemCode", <<code>>, Void)
    /\ UNCHANGED <<clock, history>>

FrameCreateTicket(ticket) ==
    /\ Fits(createTicket(getInitialState, ticket), MaxFrameRecords)
    /\ localStorage' = saveState(createTicket(getInitialState, ticket))
    /\ last' = Call("createTicket", <<ticket>>, Void)
    /\ UNCHANGED <<clock, history>>

FrameProcessPurchase(userId, itemId) ==
    ProcessPurchaseCall(userId, itemId, MaxFrameRecords) /\ UNCHANGED history

NextFrame ==
    \/ \E user \in UserInputs : FrameAddUser(user)
    \/ \E item \in ItemInputs : FrameAddItem(item)
    \/ \E transaction \in TransactionInputs : FrameAddTransaction(transaction)
    \/ \E code \in RedeemCodeInputs : FrameAddRedeemCode(code)
    \/ \E ticket \in TicketInputs : FrameCreateTicket(ticket)
    \/ \E userId \in UserIds, itemId \in ItemIds : FrameProcessPurchase(userId, itemId)

SpecFrame == Init /\ [][NextFrame]_vars

----------------------------------------------------------------------------
(* Properties.  A step of the machine is one call on DB: last' names the
   call and its return value, the unprimed document is the one before it. *)

FirstUser(state, userId) == FindIndex({n \in DOMAIN state.users : state.users[n].id = userId})
FirstItem(state, itemId) == FindIndex({n \in DOMAIN state.items : state.items[n].id = itemId})

\* C1: whenever processPurchase returns success = false, the persisted
\* document (every user's credits, every item's units and deliveredCount, the
\* purchases list) is the one before the call.
C1_FailedPurchaseChangesNothing ==
    [][(last'.op = "processPurchase" /\ ~last'.ret.success)
          => localStorage' = localStorage]_vars

\* a purchase has just failed "Out of stock" for a user who could pay
C1_Witness ==
    /\ last.op = "processPurchase"
    /\ last.ret.error = "Out of stock"
    /\ LET u == FirstUser(getInitialState, last.args[1])
           i == FirstItem(getInitialState, last.args[2])
       IN  getUsers[u].credits >= getItems[i].price /\ getItems[i].price > 0

\* the existence check and the credits check of processPurchase
ChecksPass(state, userId, itemId) ==
    LET u == FirstUser(state, userId)
        i == FirstItem(state, itemId)
    IN  u # 0 /\ i # 0 /\ state.users[u].credits >= state.items[i].price

\* the item is INSTANT or has a unit that is not delivered
InStock(state, itemId) ==
    LET item == state.items[FirstItem(state, itemId)]
    IN  \/ item.type = INSTANT
        \/ \E k \in DOMAIN item.sequentialItems : ~item.sequentialItems[k].isDelivered

\* from before to after, the user was debited the item's price and exactly
\* one record was appended to the purchases
DebitedAndLogged(before, after, userId, itemId) ==
    LET u == FirstUser(before, userId)
        i == FirstItem(before, itemId)
    IN  /\ u # 0 /\ i # 0
        /\ Len(after.users) = Len(before.users)
        /\ after.users[u].credits = before.users[u].credits - before.items[i].price
        /\ Len(after.purchases) = Len(before.purchases) + 1
        /\ SubSeq(after.purchases, 1, Len(before.purchases)) = before.purchases

\* C2 as stated: processPurchase debits and appends one Purchase if and only
\* if the existence check and the credits check pass.
C2_Original ==
    [][last'.op = "processPurchase"
          => (DebitedAndLogged(getInitialState, getInitialState', last'.args[1], last'.args[2])
                <=> ChecksPass(getInitialState, last'.args[1], last'.args[2]))]_vars

\* C2 amended: processPurchase debits the user's credits by item.price and
\* appends exactly one Purchase if and only if the existence check and the
\* credits check pass and the item is INSTANT or has an undelivered unit.
C2_DebitIffChecksAndStock ==
    [][last'.op = "processPurchase"
          => (DebitedAndLogged(getInitialState, getInitialState', last'.args[1], last'.args[2])
                <=> (/\ ChecksPass(getInitialState, last'.args[1], last'.args[2])
                     /\ InStock(getInitialState, last'.args[2])))]_vars

\* a purchase of a SEQUENTIAL item has just succeeded with the buyer's
\* credits equal to the price before the call
C2_Witness ==
    /\ last.op = "processPurchase"
    /\ last.ret.success
    /\ LET u == FirstUser(getInitialState, last.args[1])
           i == FirstItem(getInitialState, last.args[2])
       IN  getItems[i].type = SEQUENTIAL /\ getUsers[u].credits = 0

\* C3: for a SEQUENTIAL item put in place with N undelivered units and not
\* replaced or deleted since, of the processPurchase calls on it that pass
\* the existence and credits checks the first N succeed, the k-th returning
\* the content of the k-th undelivered unit in list order, and every later
\* one fails with "Out of stock".
C3_StockDeliveredInOrder ==
    \A id \in ItemIds :
        (stock[id].tracked /\ getItems[FirstItem(getInitialState, id)].type = SEQUENTIAL)
        => \A k \in DOMAIN stock[id].outcomes :
              IF k <= Len(stock[id].units)
              THEN /\ stock[id].outcomes[k].success
                   /\ stock[id].outcomes[k].content = stock[id].units[k]
              ELSE /\ ~stock[id].outcomes[k].success
                   /\ stock[id].outcomes[k].error = "Out of stock"

\* an item put in place with two undelivered units has taken three
\* purchases that passed both checks
C3_Witness ==
    \E id \in ItemIds :
        /\ stock[id].tracked
        /\ Len(stock[id].units) = 2
        /\ Len(stock[id].outcomes) = 3
        /\ getItems[FirstItem(getInitialState, id)].type = SEQUENTIAL

\* some stored record with this code string is used / is unused
HasUsedCode(state, codeStr) ==
    \E k \in DOMAIN state.redeemCodes :
        state.redeemCodes[k].code = codeStr /\ state.redeemCodes[k].isUsed
HasUnusedCode(state, codeStr) ==
    \E k \in DOMAIN state.redeemCodes :
        state.redeemCodes[k].code = codeStr /\ ~state.redeemCodes[k].isUsed

\* C4 as stated: redeem, for any user id and a code string carried by a used
\* record, fails with "Invalid or already used code" and changes no credits.
C4_Original ==
    [][(last'.op = "redeem" /\ HasUsedCode(getInitialState, last'.args[2]))
          => /\ ~last'.ret.success
             /\ last'.ret.error = "Invalid or already used code"
             /\ getUsers' = getUsers]_vars

\* C4 amended: redeem, for a code string carried by a used record, fails
\* with "User not found" when no user has the id, and with "Invalid or
\* already used code" when a user has it and no stored record with that
\* string is unused; in both cases every user's credits are unchanged.
C4_UsedCodeFails ==
    [][(last'.op = "redeem" /\ HasUsedCode(getInitialState, last'.args[2]))
          => IF FirstUser(getInitialState, last'.args[1]) = 0
             THEN /\ ~last'.ret.success
                  /\ last'.ret.error = "User not found"
                  /\ getUsers' = getUsers
             ELSE ~HasUnusedCode(getInitialState, last'.args[2])
                  => /\ ~last'.ret.success
                     /\ last'.ret.error = "Invalid or already used code"
                     /\ getUsers' = getUsers]_vars

\* redeem has just failed for an existing user on a code string whose
\* stored records are all used
C4_Witness ==
    /\ last.op = "redeem"
    /\ last.ret.error = "Invalid or already used code"
    /\ HasUsedCode(getInitialState, last.args[2])
    /\ FirstUser(getInitialState, last.args[1]) # 0

\* the approval of tx, from before to after: the first user with id
\* tx.userId gains tx.amount and every other user record is unchanged
ApprovalCredits(before, after, tx) ==
    LET u == FirstUser(before, tx.userId)
    IN  /\ Len(after.users) = Len(before.users)
        /\ \A k \in DOMAIN before.users :
              after.users[k] =
                 IF k = u THEN [before.users[k] EXCEPT !.credits = @ + tx.amount]
                 ELSE before.users[k]

\* C5 as stated: for every stored transaction tx,
\* updateTransactionStatus(tx.id, APPROVED) credits tx.amount to the user
\* found by tx.userId and changes no other user's credits, each time it is
\* called.
C5_Original ==
    [][(last'.op = "updateTransactionStatus" /\ last'.args[2] = APPROVED)
          => \A t \in DOMAIN getTransactions :
                getTransactions[t].id = last'.args[1]
                => ApprovalCredits(getInitialState, getInitialState', getTransactions[t])]_vars

\* C5 amended: for the first stored transaction tx with the id given,
\* updateTransactionStatus(id, APPROVED) credits tx.amount to the user found
\* by tx.userId and changes no other user's credits; it does so on every
\* call, whatever the status of tx before the call.
C5_ApprovalCreditsOwner ==
    [][(last'.op = "updateTransactionStatus" /\ last'.args[2] = APPROVED)
          => LET t == FindIndex({n \in DOMAIN getTransactions : getTransactions[n].id = last'.args[1]})
             IN  t # 0 => ApprovalCredits(getInitialState, getInitialState',
                                          getTransactions[t])]_vars

\* a stored transaction whose owner is stored has just been approved
C5_Witness ==
    /\ last.op = "updateTransactionStatus"
    /\ last.args[2] = APPROVED
    /\ LET t == FindIndex({n \in DOMAIN getTransactions : getTransactions[n].id = last.args[1]})
       IN  /\ t # 0
           /\ getTransactions[t].status = APPROVED
           /\ FirstUser(getInitialState, getTransactions[t].userId) # 0
           /\ Len(getUsers) = 2

\* C6: after a successful processPurchase the buyer's credits are >= 0.
C6_BuyerNotNegative ==
    (last.op = "processPurchase" /\ last.ret.success)
    => getUsers[FirstUser(getInitialState, last.args[1])].credits >= 0

\* a purchase has just succeeded that left the buyer with no credits
C6_Witness ==
    /\ last.op = "processPurchase"
    /\ last.ret.success
    /\ getUsers[FirstUser(getInitialState, last.args[1])].credits = 0
    /\ getItems[FirstItem(getInitialState, last.args[2])].type = INSTANT

\* where the item record at position i is after the step: deleteItem drops
\* the records with the id and closes the gaps, every other call keeps each
\* record (updateItem: the item with the same id) at its position
PositionAfter(i) ==
    IF last'.op = "deleteItem"
    THEN IF getItems[i].id = last'.args[1] THEN 0
         ELSE i - Cardinality({m \in 1..(i - 1) : getItems[m].id = last'.args[1]})
    ELSE i

\* C7 (first half) as stated: over any public operation, updateItem
\* included, a unit of an item that has isDelivered = true does not go back
\* to isDelivered = false.
C7_DeliveredNeverReverts ==
    [][\A i \in DOMAIN getItems :
          LET j == PositionAfter(i)
              before == getItems[i].sequentialItems
          IN  j # 0 =>
                LET after == getItems'[j].sequentialItems
                IN  \A k \in DOMAIN before :
                       (/\ before[k].isDelivered
                        /\ k \in DOMAIN after
                        /\ after[k].content = before[k].content)
                       => after[k].isDelivered]_vars

IsPrefix(a, b) == Len(a) <= Len(b) /\ SubSeq(b, 1, Len(a)) = a

RECURSIVE SurvivorsFrom(_, _)
SurvivorsFrom(log, j) ==
    IF j > Len(log) THEN <<>>
    ELSE (IF /\ log[j].op = "addItem"
             /\ ~\E k \in (j + 1)..Len(log) :
                    log[k].op = "deleteItem" /\ log[k].id = log[j].id
          THEN <<log[j].item>> ELSE <<>>) \o SurvivorsFrom(log, j + 1)

\* C9: after any sequence of addItem and deleteItem calls on an empty store,
\* getItems() is the added items whose id was not deleted after their
\* addition, in insertion order; after deleteItem(id) no stored item has id.
C9_ItemsAreNetAdditions ==
    /\ getItems = SurvivorsFrom(addDelLog, 1)
    /\ last.op = "deleteItem" => \A k \in DOMAIN getItems : getItems[k].id # last.args[1]

\* a deleteItem has just removed two items with the same id and left another
C9_Witness ==
    /\ last.op = "deleteItem"
    /\ Len(getItems) >= 1
    /\ Cardinality({j \in DOMAIN addDelLog :
            addDelLog[j].op = "addItem" /\ addDelLog[j].id = last.args[1]}) >= 2
    /\ addDelLog[1].op = "addItem" /\ addDelLog[1].id # last.args[1]

\* the credits of every user stored before the step are the same after it
CreditsKept ==
    /\ Len(getUsers') >= Len(getUsers)
    /\ \A k \in DOMAIN getUsers : getUsers'[k].credits = getUsers[k].credits

\* C10 as stated: every public operation other than processPurchase,
\* updateTransactionStatus with APPROVED and redeem leaves the credits of
\* every stored user unchanged.
C10_Original ==
    [][(/\ last'.op \notin {"processPurchase", "redeem"}
        /\ ~(last'.op = "updateTransactionStatus" /\ last'.args[2] = APPROVED))
          => CreditsKept]_vars

\* C10 amended: every public operation other than processPurchase,
\* updateTransactionStatus with APPROVED, redeem and updateUserCredits leaves
\* the credits of every stored user unchanged.
C10_CreditsFrame ==
    [][(/\ last'.op \notin {"processPurchase", "redeem", "updateUserCredits"}
        /\ ~(last'.op = "updateTransactionStatus" /\ last'.args[2] = APPROVED))
          => CreditsKept]_vars

\* a stored transaction whose owner is stored has just been rejected
C10_Witness ==
    /\ last.op = "updateTransactionStatus"
    /\ last.args[2] = REJECTED
    /\ LET t == FindIndex({n \in DOMAIN getTransactions : getTransactions[n].id = last.args[1]})
       IN  /\ t # 0
           /\ getTransactions[t].status = REJECTED
           /\ FirstUser(getInitialState, getTransactions[t].userId) # 0

\* C11: updateItem(item) returns true exactly when some stored item has
\* id = item.id; then the first such record is replaced by item at the same
\* position, the list length and every other item are unchanged; otherwise
\* it returns false and the backing store (an absent key included) is the
\* one before the call.
C11_UpdateItemReplacesFirst ==
    [][last'.op = "updateItem"
          => LET item == last'.args[1]
                 index == FirstItem(getInitialState, item.id)
             IN  /\ last'.ret = (\E k \in DOMAIN getItems : getItems[k].id = item.id)
                 /\ IF last'.ret
                    THEN /\ Len(getItems') = Len(getItems)
                         /\ \A k \in DOMAIN getItems :
                               getItems'[k] = IF k = index THEN item ELSE getItems[k]
                    ELSE localStorage' = localStorage]_vars

\* updateItem has just replaced the first of two stored items with the same
\* id by a record that differs from the second
C11_Witness ==
    /\ last.op = "updateItem"
    /\ last.ret = TRUE
    /\ Len(getItems) = 2
    /\ getItems[1] = last.args[1]
    /\ getItems[2].id = getItems[1].id
    /\ getItems[2] # getItems[1]

\* the getters of DB, and its calls that never reach saveState
Getters ==
    {"getUsers", "getItems", "getPurchases", "getTransactions", "getRedeemCodes",
     "getTickets"}
NonMutating == Getters \cup {"verifyUser"}

KeyAbsent == STORAGE_KEY \notin DOMAIN localStorage

\* C12: while the storage key is absent every getter returns the empty
\* sequence, and a getter or verifyUser leaves the key absent: the key is
\* first written by a call that is neither a getter nor verifyUser.
C12_GettersDoNotInitialize ==
    [][KeyAbsent
          => /\ last'.op \in Getters => last'.ret = <<>>
             /\ last'.op \in NonMutating => KeyAbsent'
             /\ ~KeyAbsent' => last'.op \notin NonMutating]_vars

\* getTickets has just returned the empty sequence and the key is absent
C12_Witness ==
    /\ KeyAbsent
    /\ last.op = "getTickets"
    /\ last.ret = <<>>

FirstTransaction(state, id) ==
    FindIndex({n \in DOMAIN state.transactions : state.transactions[n].id = id})

\* C13: updateTransactionStatus(id, status) with a status other than
\* APPROVED sets the status of the matching transaction (the first stored
\* one with the id) to that value, changes no other transaction and leaves
\* every user record as it is; with an id that no transaction has it changes
\* no transaction and no user, whatever the status.
C13_OtherStatusKeepsCredits ==
    [][last'.op = "updateTransactionStatus"
          => LET t == FirstTransaction(getInitialState, last'.args[1])
                 status == last'.args[2]
             IN  /\ t = 0 => getTransactions' = getTransactions /\ getUsers' = getUsers
                 /\ (t # 0 /\ status # APPROVED)
                      => /\ getUsers' = getUsers
                         /\ getTransactions' =
                               [getTransactions EXCEPT ![t].status = status]]_vars

\* the first of two stored transactions with the same id has just been
\* rejected, with one user stored
C13_Witness ==
    /\ last.op = "updateTransactionStatus"
    /\ last.args[2] = REJECTED
    /\ Len(getTransactions) = 2
    /\ getTransactions[1].id = last.args[1]
    /\ getTransactions[2].id = last.args[1]
    /\ getTransactions[1].status = REJECTED
    /\ getTransactions[2].status = PENDING
    /\ Len(getUsers) = 1

FirstTicket(state, ticketId) ==
    FindIndex({n \in DOMAIN state.tickets : state.tickets[n].id = ticketId})

\* the timestamp of the most recent message of a ticket that has one is not
\* later than the ticket's lastUpdated
CoversLastMessage(ticket) ==
    Len(ticket.messages) > 0
    => ticket.lastUpdated >= ticket.messages[Len(ticket.messages)].timestamp

\* C14 as stated: after every call, with a clock that does not go back, the
\* lastUpdated of each stored ticket is greater than or equal to the
\* timestamp of its most recent message, and a ticket that closeTicket has
\* just closed has a lastUpdated greater than or equal to the time of the
\* call.
C14_LastUpdatedIsLatest ==
    [][/\ \A k \in DOMAIN getTickets' : CoversLastMessage(getTickets'[k])
       /\ last'.op = "closeTicket"
            => LET k == FirstTicket(getInitialState, last'.args[1])
               IN  k # 0 => getTickets'[k].lastUpdated >= clock']_vars

\* no unit of the item is left to deliver
NoUnitLeft(item) ==
    \A k \in DOMAIN item.sequentialItems : item.sequentialItems[k].isDelivered

\* C15: processPurchase tests its failure conditions in a fixed order: a
\* missing user or item gives "User or Item not found"; otherwise credits
\* below the price give "Insufficient credits", also when a SEQUENTIAL item
\* has no undelivered unit; "Out of stock" is returned only when both checks
\* pass, the item is not INSTANT and none of its units is undelivered.  An
\* INSTANT item never gives "Out of stock", and its purchase returns
\* item.content, or the empty string when the content is not set.
C15_FailureOrder ==
    [][last'.op = "processPurchase"
          => LET state == getInitialState
                 u == FirstUser(state, last'.args[1])
                 i == FirstItem(state, last'.args[2])
                 ret == last'.ret
             IN  IF u = 0 \/ i = 0
                 THEN ~ret.success /\ ret.error = "User or Item not found"
                 ELSE LET user == state.users[u]
                          item == state.items[i]
                      IN  /\ user.credits < item.price
                               => ~ret.success /\ ret.error = "Insufficient credits"
                          /\ ret.error = "Out of stock"
                               => /\ user.credits >= item.price
                                  /\ item.type # INSTANT
                                  /\ NoUnitLeft(item)
                          /\ (item.type = INSTANT /\ user.credits >= item.price)
                               => /\ ret.success
                                  /\ ret.content = IF item.content = Undefined THEN ""
                                                   ELSE item.content]_vars

\* a purchase of a SEQUENTIAL item without an undelivered unit has just
\* failed for lack of credits
C15_Witness ==
    /\ last.op = "processPurchase"
    /\ last.ret.error = "Insufficient credits"
    /\ LET i == FirstItem(getInitialState, last.args[2])
       IN  getItems[i].type = SEQUENTIAL /\ NoUnitLeft(getItems[i])

\* the first stored record with the code string and isUsed = false
FirstUnusedCode(state, codeStr) ==
    FindIndex({n \in DOMAIN state.redeemCodes :
                  state.redeemCodes[n].code = codeStr /\ ~state.redeemCodes[n].isUsed})

\* C16: redeem(userId, codeStr) fails with "User not found" when no user
\* has the id, whatever the code; otherwise with "Invalid or already used
\* code" when no stored code has the string and isUsed = false; on either
\* failure the persisted document is the one before the call.  On success
\* the first unused record with the string, and no other, becomes used, the
\* credits of the user found, and of no other, grow by that record's amount,
\* and the amount returned is that amount.
C16_RedeemContract ==
    [][last'.op = "redeem"
          => LET state == getInitialState
                 u == FirstUser(state, last'.args[1])
                 c == FirstUnusedCode(state, last'.args[2])
                 ret == last'.ret
             IN  IF u = 0
                 THEN /\ ~ret.success /\ ret.error = "User not found"
                      /\ localStorage' = localStorage
                 ELSE IF c = 0
                 THEN /\ ~ret.success /\ ret.error = "Invalid or already used code"
                      /\ localStorage' = localStorage
                 ELSE /\ ret.success
                      /\ ret.amount = state.redeemCodes[c].amount
                      /\ getRedeemCodes' = [state.redeemCodes EXCEPT ![c].isUsed = TRUE]
                      /\ getUsers' = [state.users EXCEPT
                                         ![u].credits = @ + state.redeemCodes[c].amount]]_vars

\* the second of two stored records with the same code string and different
\* amounts has just been redeemed, the first having been used before
C16_Witness ==
    /\ last.op = "redeem"
    /\ last.ret.success
    /\ Len(getRedeemCodes) = 2
    /\ getRedeemCodes[1].code = last.args[2] /\ getRedeemCodes[1].isUsed
    /\ getRedeemCodes[2].code = last.args[2] /\ getRedeemCodes[2].isUsed
    /\ getRedeemCodes[1].amount # getRedeemCodes[2].amount
    /\ last.ret.amount = getRedeemCodes[2].amount

\* the stored records with the code string
StoredCodes(codeStr) ==
    {k \in DOMAIN getRedeemCodes : getRedeemCodes[k].code = codeStr}

\* for each code string, no more redeem calls have succeeded than there are
\* stored records with the string
RedeemedAtMostStored ==
    \A codeStr \in CodeStrs : redeemed[codeStr] <= Cardinality(StoredCodes(codeStr))

\* over a call, every stored code record stays at its position with its
\* code string, and stays used if it was
UsedStaysUsed ==
    \A k \in DOMAIN getRedeemCodes :
        /\ k \in DOMAIN getRedeemCodes'
        /\ getRedeemCodes'[k].code = getRedeemCodes[k].code
        /\ getRedeemCodes[k].isUsed => getRedeemCodes'[k].isUsed

\* C17: each RedeemCode record is redeemed at most once, over any sequence
\* of public operations: the number of successful redeem calls for a code
\* string never exceeds the number of stored records with that string, and
\* no public operation sets a record's isUsed back from true to false.
C17_CodeRedeemedOnce ==
    []RedeemedAtMostStored /\ [][UsedStaysUsed]_vars

\* redeem has just been refused on a code string whose two stored records
\* have both been redeemed
C17_Witness ==
    /\ last.op = "redeem"
    /\ last.ret.error = "Invalid or already used code"
    /\ redeemed[last.args[2]] = 2
    /\ Cardinality(StoredCodes(last.args[2])) = 2

\* the calls of DB that assign to the items list or to an item
ItemCalls == {"addItem", "updateItem", "deleteItem", "processPurchase"}

\* the deliveredCount of every stored SEQUENTIAL item is the number of its
\* units that have isDelivered = true
CountMatchesDelivered ==
    \A k \in DOMAIN getItems :
        getItems[k].type = SEQUENTIAL
        => getItems[k].deliveredCount =
              Cardinality(DeliveredUnits(getItems[k].sequentialItems))

\* over a processPurchase the deliveredCount of the item bought grows by one
\* if the call succeeds and the item is SEQUENTIAL, and every other
\* deliveredCount is kept; a call that is not on items keeps the items
CountStep ==
    /\ last'.op = "processPurchase"
         => /\ Len(getItems') = Len(getItems)
            /\ \A k \in DOMAIN getItems :
                  getItems'[k].deliveredCount =
                     getItems[k].deliveredCount +
                       (IF /\ last'.ret.success
                           /\ k = FirstItem(getInitialState, last'.args[2])
                           /\ getItems[k].type = SEQUENTIAL
                        THEN 1 ELSE 0)
    /\ last'.op \notin ItemCalls => getItems' = getItems

\* C18: for SEQUENTIAL items put in place with deliveredCount equal to the
\* number of their delivered units, deliveredCount equals the number of
\* units with isDelivered = true in every reachable state; it grows by
\* exactly 1 on each successful purchase of the item and is unchanged
\* otherwise; a purchase of an INSTANT item changes no deliveredCount.
C18_DeliveredCountTracksUnits ==
    []CountMatchesDelivered /\ [][CountStep]_vars

\* the purchase of the second unit of an item whose first unit was delivered
\* already has just succeeded
C18_Witness ==
    /\ last.op = "processPurchase"
    /\ last.ret.success
    /\ LET item == getItems[FirstItem(getInitialState, last.args[2])]
       IN  /\ item.type = SEQUENTIAL
           /\ item.deliveredCount = 2
           /\ last.ret.content = item.sequentialItems[2].content

\* from before to after, only the credits of the user at position u changed
OnlyCreditsOf(before, after, u) ==
    /\ Len(after.users) = Len(before.users)
    /\ \A k \in DOMAIN before.users :
          after.users[k] =
             IF k = u THEN [before.users[k] EXCEPT !.credits = after.users[u].credits]
             ELSE before.users[k]

\* from before to after, only the item at position i changed, and only if
\* it is SEQUENTIAL: one of its undelivered units became delivered and its
\* deliveredCount grew by one
OnlyUnitOf(before, after, i) ==
    /\ Len(after.items) = Len(before.items)
    /\ \A k \in DOMAIN before.items : k # i => after.items[k] = before.items[k]
    /\ IF before.items[i].type = SEQUENTIAL
       THEN \E n \in DOMAIN before.items[i].sequentialItems :
               /\ ~before.items[i].sequentialItems[n].isDelivered
               /\ after.items[i] =
                     [before.items[i] EXCEPT !.sequentialItems[n].isDelivered = TRUE,
                                             !.deliveredCount = @ + 1]
       ELSE after.items[i] = before.items[i]

\* C19: a successful processPurchase(userId, itemId) changes only the first
\* user record with the id (its credits), the first item record with the id
\* (one unit's isDelivered and the deliveredCount, SEQUENTIAL only) and the
\* end of the purchases list; the other users and items and the
\* transactions, redeemCodes and tickets are unchanged, and the Purchase
\* appended carries userId, itemId and the item's name and price as of the
\* call.
C19_PurchaseFrame ==
    [][(last'.op = "processPurchase" /\ last'.ret.success)
          => LET before == getInitialState
                 after == getInitialState'
                 u == FirstUser(before, last'.args[1])
                 i == FirstItem(before, last'.args[2])
                 purchase == after.purchases[Len(after.purchases)]
             IN  /\ OnlyCreditsOf(before, after, u)
                 /\ OnlyUnitOf(before, after, i)
                 /\ after.transactions = before.transactions
                 /\ after.redeemCodes = before.redeemCodes
                 /\ after.tickets = before.tickets
                 /\ after.purchases = Append(before.purchases, purchase)
                 /\ purchase.userId = last'.args[1]
                 /\ purchase.itemId = last'.args[2]
                 /\ purchase.itemName = before.items[i].name
                 /\ purchase.price = before.items[i].price]_vars

\* a purchase has just succeeded for a user id that two stored user records
\* carry, with a price that is not zero
C19_Witness ==
    /\ last.op = "processPurchase"
    /\ last.ret.success
    /\ Len(getUsers) = 2
    /\ getUsers[1].id = last.args[1]
    /\ getUsers[2].id = last.args[1]
    /\ getPurchases[Len(getPurchases)].price # 0

====
